---- MODULE Spec2Model ----
(***************************************************************************)
(* Model of src/now_payments.py: the NowPaymentsAPI client, its six        *)
(* operations and the module-level singleton.                              *)
(*                                                                         *)
(* Python values are tagged records [kind, val]; a Python str is a         *)
(* sequence of one-character strings, so that str.split, f-string          *)
(* formatting and float() are computed character by character.  A Python   *)
(* float is counted in tenths (15 stands for 1.5); every decimal string    *)
(* the model feeds to float() carries at most one fractional digit.        *)
(***************************************************************************)
EXTENDS Integers, Sequences, FiniteSets, TLC

VARIABLES
    config_key,   \* Config.NOW_PAYMENTS_API_KEY as read at import time
    api_key,      \* now_payments.api_key
    headers,      \* now_payments.headers
    pc,           \* per caller: "idle", "waiting" (inside requests.get/post), "done"
    op,           \* per caller: the method being called
    args,         \* per caller: the arguments of the call
    now,          \* per caller: the value datetime.now() gave the call
    sent,         \* per caller: the HTTP requests the current call has issued
    response,     \* per caller: what the HTTP exchange of the call ended in
    outcome       \* per caller: the value returned or the exception raised

vars == <<config_key, api_key, headers,
          pc, op, args, now, sent, response, outcome>>

----------------------------------------------------------------------------
(* Bounds of the model *)

NumCallers == 2
MaxUserLen == 2

----------------------------------------------------------------------------
(* Python values *)

PyNone == [kind |-> "None"]
PyStr(s) == [kind |-> "str", val |-> s]
PyNum(n) == [kind |-> "num", val |-> n]
PyBool(b) == [kind |-> "bool", val |-> b]
PyDict(d) == [kind |-> "dict", val |-> d]
PyList(l) == [kind |-> "list", val |-> l]

EmptyDict == [k \in {} |-> PyNone]

\* bool(v): Python truthiness
Truthy(v) ==
    CASE v.kind = "None" -> FALSE
      [] v.kind = "str" -> Len(v.val) > 0
      [] v.kind = "num" -> v.val # 0
      [] v.kind = "bool" -> v.val
      [] v.kind = "dict" -> DOMAIN v.val # {}
      [] v.kind = "list" -> Len(v.val) > 0

\* d.get(k, default) of a dict d (the mapping itself)
dict_get(d, k, default) ==
    IF k \in DOMAIN d THEN d[k] ELSE default

\* how a call ends
Return(v) == [kind |-> "return", val |-> v]
Raise(e, m) == [kind |-> "raise", exc |-> e, msg |-> m]
Pending == [kind |-> "pending"]

----------------------------------------------------------------------------
(* String literals of the source *)

s_deposit == <<"d", "e", "p", "o", "s", "i", "t">>
s_usd == <<"u", "s", "d">>
s_usdt == <<"u", "s", "d", "t">>
s_confirmed == <<"c", "o", "n", "f", "i", "r", "m", "e", "d">>
s_deposit_for_user ==
    <<"D", "e", "p", "o", "s", "i", "t", " ", "f", "o", "r", " ", "u", "s", "e", "r", " ">>

Digits == <<"0", "1", "2", "3", "4", "5", "6", "7", "8", "9">>

----------------------------------------------------------------------------
(* str.split, str(float), float(str) *)

RECURSIVE SplitFrom(_, _, _, _)
\* s[i..] split on sep, cur being the token read so far
SplitFrom(s, sep, i, cur) ==
    IF i > Len(s) THEN <<cur>>
    ELSE IF s[i] = sep THEN <<cur>> \o SplitFrom(s, sep, i + 1, <<>>)
    ELSE SplitFrom(s, sep, i + 1, Append(cur, s[i]))

\* s.split(sep) for a one-character sep: every occurrence separates, empty
\* tokens are kept
Split(s, sep) == SplitFrom(s, sep, 1, <<>>)

RECURSIVE IntStr(_)
\* the decimal digits of a natural number
IntStr(n) ==
    IF n < 10 THEN <<Digits[n + 1]>>
    ELSE Append(IntStr(n \div 10), Digits[(n % 10) + 1])

\* str(x) of a non-negative float x given in tenths: "1.5", "0.0", "12.3"
FloatStr(t) == IntStr(t \div 10) \o <<".">> \o <<Digits[(t % 10) + 1]>>

IsDigit(ch) == \E i \in 1..10 : Digits[i] = ch
DigitVal(ch) == (CHOOSE i \in 1..10 : Digits[i] = ch) - 1

RECURSIVE DigitsVal(_)
\* the number a sequence of digits denotes (0 for none)
DigitsVal(ds) ==
    IF Len(ds) = 0 THEN 0
    ELSE 10 * DigitsVal(SubSeq(ds, 1, Len(ds) - 1)) + DigitVal(ds[Len(ds)])

\* float(s) of a str made of digits, points and letters: digits, optionally
\* a point and one more digit, are a number; "abc", "" and "." are none
ParseFloat(s) ==
    LET parts == Split(s, ".")
        whole == parts[1]
        frac == IF Len(parts) = 2 THEN parts[2] ELSE <<>>
        wellFormed ==
            /\ Len(parts) \in {1, 2}
            /\ \A i \in 1..Len(whole) : IsDigit(whole[i])
            /\ \A i \in 1..Len(frac) : IsDigit(frac[i])
            /\ Len(whole) + Len(frac) > 0
            /\ Len(frac) <= 1
    IN  IF wellFormed
        THEN [ok |-> TRUE, val |-> 10 * DigitsVal(whole) + DigitsVal(frac)]
        ELSE [ok |-> FALSE, val |-> 0]

\* float(v) of a Python value
float(v) ==
    CASE v.kind = "num" -> Return(PyNum(v.val))
      [] v.kind = "bool" -> Return(PyNum(IF v.val THEN 10 ELSE 0))
      [] v.kind = "str" ->
            IF ParseFloat(v.val).ok
            THEN Return(PyNum(ParseFloat(v.val).val))
            ELSE Raise("ValueError", "could not convert string to float")
      [] OTHER -> Raise("TypeError", "float() argument must be a string or a real number")

----------------------------------------------------------------------------
(* process_callback *)

\* order_id.split('_')[0]: the first token instead of the second
second_token_first(order_id) ==
    IF order_id.kind # "str"
    THEN Raise("AttributeError", "object has no attribute 'split'")
    ELSE Return(PyStr(Split(order_id.val, "_")[1]))

\* order_id.split('_')[1]
second_token(order_id) ==
    IF order_id.kind # "str"
    THEN Raise("AttributeError", "object has no attribute 'split'")
    ELSE IF Len(Split(order_id.val, "_")) < 2
    THEN Raise("IndexError", "list index out of range")
    ELSE Return(PyStr(Split(order_id.val, "_")[2]))

\* process_callback as if only order_id were required
process_callback_result_order_id_only(callback_data) ==
    LET payment_status == dict_get(callback_data, "payment_status", PyNone)
        order_id == dict_get(callback_data, "order_id", PyNone)
    IN  IF ~Truthy(order_id)
        THEN Raise("ValueError", "Invalid callback data")
        ELSE IF second_token(order_id).kind = "raise"
        THEN second_token(order_id)
        ELSE Return(PyDict([
                user_id |-> second_token(order_id).val,
                status |-> payment_status,
                amount |-> dict_get(callback_data, "actually_paid", PyNone),
                currency |-> dict_get(callback_data, "pay_currency", PyNone),
                timestamp |-> dict_get(callback_data, "created_at", PyNone)]))

\* NowPaymentsAPI.process_callback(callback_data): what the call ends in.
\* The except clause logs and re-raises the same exception.
process_callback_result(callback_data) ==
    LET payment_status == dict_get(callback_data, "payment_status", PyNone)
        order_id == dict_get(callback_data, "order_id", PyNone)
    IN  IF ~Truthy(order_id) \/ ~Truthy(payment_status)
        THEN Raise("ValueError", "Invalid callback data")
        ELSE IF second_token(order_id).kind = "raise"
        THEN second_token(order_id)
        ELSE Return(PyDict([
                user_id |-> second_token(order_id).val,
                status |-> payment_status,
                amount |-> dict_get(callback_data, "actually_paid", PyNone),
                currency |-> dict_get(callback_data, "pay_currency", PyNone),
                timestamp |-> dict_get(callback_data, "created_at", PyNone)]))

----------------------------------------------------------------------------
(* Configuration and construction *)

BASE_URL == "https://api.nowpayments.io/v1"

\* the values Config.NOW_PAYMENTS_API_KEY may hold
Keys == {"key-A", "key-B"}

\* NowPaymentsAPI.__init__: self.headers
init_headers(key) ==
    ("x-api-key" :> key) @@ ("Content-Type" :> "application/json")

----------------------------------------------------------------------------
(* The HTTP exchange *)

\* a request built without headers=self.headers
HttpRequest_without_headers(method, url, hdrs, params, json) ==
    [method |-> method, url |-> url, headers |-> EmptyDict, params |-> params, json |-> json]

\* the keyword arguments of requests.get / requests.post
HttpRequest(method, url, hdrs, params, json) ==
    [method |-> method, url |-> url, headers |-> hdrs, params |-> params, json |-> json]

\* the request put on the wire a second time
issue_twice(log, req) == Append(Append(log, req), req)

\* requests.get / requests.post: the call puts one request on the wire
issue(log, req) == Append(log, req)

NoResponse == [kind |-> "none"]
\* the transport failed: requests raises a ConnectionError / Timeout
NetworkFailure == [kind |-> "error", exc |-> "ConnectionError"]
\* the final response of the exchange
HttpResponse(status, body) == [kind |-> "response", status_code |-> status, body |-> body]
JsonBody(v) == [kind |-> "json", val |-> v]
TextBody == [kind |-> "text"]

\* raise_for_status() as if only server errors raised
raise_for_status_server_only(resp) == 500 <= resp.status_code /\ resp.status_code < 600

\* response.raise_for_status(): raises HTTPError for a 4xx or 5xx status and
\* for no other
raise_for_status(resp) == 400 <= resp.status_code /\ resp.status_code < 600

\* response.json()
response_json(resp) ==
    IF resp.body.kind = "json"
    THEN Return(resp.body.val)
    ELSE Raise("JSONDecodeError", "Expecting value")

\* the body of the try block the five network methods share, after the
\* request is built: requests.get/post, raise_for_status(), response.json()
http_json(resp) ==
    IF resp.kind = "error" THEN Raise(resp.exc, "connection failed")
    ELSE IF raise_for_status(resp) THEN Raise("HTTPError", "error status")
    ELSE response_json(resp)

\* isinstance(e, requests.exceptions.RequestException): the transport's
\* errors, raise_for_status's HTTPError and response.json()'s
\* requests.exceptions.JSONDecodeError
IsRequestException(e) ==
    e.exc \in {"ConnectionError", "HTTPError", "JSONDecodeError"}

\* except RequestException: logger.error(...); raise  -- the exception goes
\* on to the caller whether or not the clause catches it
log_and_reraise(e) == e

----------------------------------------------------------------------------
(* The five network methods *)

\* f"{v}"
Format(v) ==
    CASE v.kind = "str" -> v.val
      [] v.kind = "None" -> <<"N", "o", "n", "e">>
      [] v.kind = "num" -> FloatStr(v.val)

\* the order id with the timestamp before the user id
OrderId_timestamp_first(user_id, t) ==
    s_deposit \o <<"_">> \o FloatStr(t) \o <<"_">> \o Format(user_id)

\* f"deposit_{user_id}_{datetime.now().timestamp()}"
OrderId(user_id, t) ==
    s_deposit \o <<"_">> \o Format(user_id) \o <<"_">> \o FloatStr(t)

\* the payload with the two currencies exchanged
create_payment_payload_swapped(price_amount, user_id, t) ==
    [price_amount |-> price_amount,
     price_currency |-> PyStr(s_usdt),
     pay_currency |-> PyStr(s_usd),
     order_id |-> PyStr(OrderId(user_id, t)),
     order_description |-> PyStr(s_deposit_for_user \o Format(user_id)),
     ipn_callback_url |-> "https://your-domain.com/nowpayments/callback",
     success_url |-> "https://your-domain.com/deposit/success",
     cancel_url |-> "https://your-domain.com/deposit/cancel"]

\* the request body of create_payment
create_payment_payload(price_amount, user_id, t) ==
    [price_amount |-> price_amount,
     price_currency |-> PyStr(s_usd),
     pay_currency |-> PyStr(s_usdt),
     order_id |-> PyStr(OrderId(user_id, t)),
     order_description |-> PyStr(s_deposit_for_user \o Format(user_id)),
     ipn_callback_url |-> "https://your-domain.com/nowpayments/callback",
     success_url |-> "https://your-domain.com/deposit/success",
     cancel_url |-> "https://your-domain.com/deposit/cancel"]

\* the request body of create_withdrawal
create_withdrawal_payload(address, amount, user_id, t) ==
    [withdrawals |-> <<
        [address |-> address,
         currency |-> PyStr(s_usdt),
         amount |-> amount,
         ipn_callback_url |-> "https://your-domain.com/nowpayments/payout-callback",
         payload |-> [user_id |-> user_id,
                      timestamp |-> [kind |-> "isoformat", val |-> t]]]>>]

\* create_payment, create_withdrawal, get_payment_status after the exchange
raw_json_result(resp) ==
    IF http_json(resp).kind = "raise"
    THEN log_and_reraise(http_json(resp))
    ELSE http_json(resp)

\* get_minimum_payment_amount as if a failed exchange gave the default
get_minimum_payment_amount_result_silent_default(resp) ==
    LET j == http_json(resp)
    IN  IF j.kind = "raise" THEN Return(PyNum(0))
        ELSE IF j.val.kind # "dict"
        THEN Raise("AttributeError", "object has no attribute 'get'")
        ELSE float(dict_get(j.val.val, "min_amount", PyNum(0)))

\* get_minimum_payment_amount after the exchange:
\* float(response.json().get('min_amount', 0))
get_minimum_payment_amount_result(resp) ==
    LET j == http_json(resp)
    IN  IF j.kind = "raise" THEN log_and_reraise(j)
        ELSE IF j.val.kind # "dict"
        THEN Raise("AttributeError", "object has no attribute 'get'")
        ELSE float(dict_get(j.val.val, "min_amount", PyNum(0)))

\* verify_callback after the exchange:
\* response.json().get('verification_status') == 'confirmed', and False
\* where a RequestException is caught
verify_callback_result(resp) ==
    LET j == http_json(resp)
    IN  IF j.kind = "raise"
        THEN IF IsRequestException(j) THEN Return(PyBool(FALSE)) ELSE j
        ELSE IF j.val.kind # "dict"
        THEN Raise("AttributeError", "object has no attribute 'get'")
        ELSE LET v == dict_get(j.val.val, "verification_status", PyNone)
             IN  Return(PyBool(v.kind = "str" /\ v.val = s_confirmed))

----------------------------------------------------------------------------
(* The state machine: each caller is idle, inside one HTTP exchange, or   *)
(* done with its call; a caller that has taken the result of its call is  *)
(* idle again and may make its next call.                                 *)

InitWith(callers) ==
    /\ config_key \in Keys
    /\ api_key = config_key
    /\ headers = init_headers(api_key)
    /\ pc = [c \in callers |-> "idle"]
    /\ op = [c \in callers |-> "none"]
    /\ args = [c \in callers |-> EmptyDict]
    /\ now = [c \in callers |-> 0]
    /\ sent = [c \in callers |-> <<>>]
    /\ response = [c \in callers |-> NoResponse]
    /\ outcome = [c \in callers |-> Pending]

\* caller c enters method m with arguments a at clock reading t and, where
\* req is a request, blocks in requests.get/post
Enter(c, m, a, t, reqs) ==
    /\ pc[c] = "idle"
    /\ op' = [op EXCEPT ![c] = m]
    /\ args' = [args EXCEPT ![c] = a]
    /\ now' = [now EXCEPT ![c] = t]
    /\ sent' = [sent EXCEPT ![c] = reqs]
    /\ response' = [response EXCEPT ![c] = NoResponse]
    /\ outcome' = [outcome EXCEPT ![c] = Pending]
    /\ pc' = [pc EXCEPT ![c] = "waiting"]
    /\ UNCHANGED <<config_key, api_key, headers>>

\* the exchange of caller c, blocked in method m, ends in resp and the method
\* ends in result
Leave(c, m, resp, result) ==
    /\ pc[c] = "waiting"
    /\ op[c] = m
    /\ response' = [response EXCEPT ![c] = resp]
    /\ outcome' = [outcome EXCEPT ![c] = result]
    /\ pc' = [pc EXCEPT ![c] = "done"]
    /\ UNCHANGED <<config_key, api_key, headers, op, args, now, sent>>

create_payment_call(c, amounts, users, times) ==
    \E price_amount \in amounts, user_id \in users, t \in times :
        Enter(c, "create_payment",
              [price_amount |-> price_amount, user_id |-> user_id], t,
              issue(<<>>, HttpRequest("POST", <<BASE_URL, "/payment">>, headers,
                        EmptyDict,
                        create_payment_payload(price_amount, user_id, t))))

create_payment_return(c, responses) ==
    \E resp \in responses :
        Leave(c, "create_payment", resp, raw_json_result(resp))

create_withdrawal_call(c, addresses, amounts, users, times) ==
    \E address \in addresses, amount \in amounts, user_id \in users, t \in times :
        Enter(c, "create_withdrawal",
              [address |-> address, amount |-> amount, user_id |-> user_id], t,
              issue(<<>>, HttpRequest("POST", <<BASE_URL, "/payout">>, headers,
                        EmptyDict,
                        create_withdrawal_payload(address, amount, user_id, t))))

create_withdrawal_return(c, responses) ==
    \E resp \in responses :
        Leave(c, "create_withdrawal", resp, raw_json_result(resp))

get_payment_status_call(c, payment_ids) ==
    \E payment_id \in payment_ids :
        Enter(c, "get_payment_status", [payment_id |-> payment_id], 0,
              issue(<<>>, HttpRequest("GET",
                        <<BASE_URL, "/payment/", Format(payment_id)>>, headers,
                        EmptyDict, PyNone)))

get_payment_status_return(c, responses) ==
    \E resp \in responses :
        Leave(c, "get_payment_status", resp, raw_json_result(resp))

get_minimum_payment_amount_call(c) ==
    Enter(c, "get_minimum_payment_amount", EmptyDict, 0,
          issue(<<>>, HttpRequest("GET", <<BASE_URL, "/min-amount">>, headers,
                    [currency_from |-> PyStr(s_usdt)], PyNone)))

get_minimum_payment_amount_return(c, responses) ==
    \E resp \in responses :
        Leave(c, "get_minimum_payment_amount", resp,
              get_minimum_payment_amount_result(resp))

verify_callback_call(c, ipns) ==
    \E ipn_data \in ipns :
        Enter(c, "verify_callback", [ipn_data |-> ipn_data], 0,
              issue(<<>>, HttpRequest("GET",
                        <<BASE_URL, "/payment-verification/",
                          Format(dict_get(ipn_data, "verification_key", PyNone))>>,
                        headers, EmptyDict, PyNone)))

verify_callback_return(c, responses) ==
    \E resp \in responses :
        Leave(c, "verify_callback", resp, verify_callback_result(resp))

\* process_callback does no I/O: the call is one step
process_callback(c, callbacks) ==
    \E callback_data \in callbacks :
        /\ pc[c] = "idle"
        /\ op' = [op EXCEPT ![c] = "process_callback"]
        /\ args' = [args EXCEPT ![c] = [callback_data |-> callback_data]]
        /\ now' = [now EXCEPT ![c] = 0]
        /\ sent' = [sent EXCEPT ![c] = <<>>]
        /\ response' = [response EXCEPT ![c] = NoResponse]
        /\ outcome' = [outcome EXCEPT ![c] = process_callback_result(callback_data)]
        /\ pc' = [pc EXCEPT ![c] = "done"]
        /\ UNCHANGED <<config_key, api_key, headers>>

\* the caller has the value or the exception of its call; nothing of the
\* call is kept (every entity is request-scoped)
call_ends(c) ==
    /\ pc[c] = "done"
    /\ pc' = [pc EXCEPT ![c] = "idle"]
    /\ op' = [op EXCEPT ![c] = "none"]
    /\ args' = [args EXCEPT ![c] = EmptyDict]
    /\ now' = [now EXCEPT ![c] = 0]
    /\ sent' = [sent EXCEPT ![c] = <<>>]
    /\ response' = [response EXCEPT ![c] = NoResponse]
    /\ outcome' = [outcome EXCEPT ![c] = Pending]
    /\ UNCHANGED <<config_key, api_key, headers>>

----------------------------------------------------------------------------
(* Inputs *)

\* the strings of at most n characters over an alphabet
StrsUpTo(alphabet, n) == UNION {[1..k -> alphabet] : k \in 0..n}

s_finished == <<"f", "i", "n", "i", "s", "h", "e", "d">>
s_failed == <<"f", "a", "i", "l", "e", "d">>
s_abc == <<"a", "b", "c">>
s_5_5 == <<"5", ".", "5">>
s_10_0 == <<"1", "0", ".", "0">>

Users == {PyStr(u) : u \in StrsUpTo({"a", "_"}, MaxUserLen)}
Times == {0, 15, 123}
Amounts == {PyNum(100), PyNum(255)}
Addresses == {PyStr(<<"T", "x">>)}
PaymentIds == {PyStr(<<"7">>), PyStr(<<"4", "2">>)}

\* a dict holding key k with one of the values, or not holding it
Opt(k, values) == {EmptyDict} \cup {k :> v : v \in values}

IpnData == Opt("verification_key", {PyStr(<<"v", "k">>)})

\* order ids create_payment generates, and others: no '_', one '_', empty,
\* null, numbers
OrderIds ==
    {PyStr(OrderId(u, t)) : u \in Users, t \in Times}
    \cup {PyStr(<<>>), PyStr(s_abc), PyStr(s_deposit \o <<"_", "a">>),
          PyStr(<<"x", "_", "a", "_", "1">>), PyNone, PyNum(0), PyNum(70)}

Callbacks ==
    {a @@ b @@ c @@ d @@ e @@ f :
        a \in Opt("order_id", OrderIds),
        b \in Opt("payment_status", {PyStr(<<>>), PyStr(s_finished)}),
        c \in Opt("actually_paid", {PyStr(s_10_0)}),
        d \in Opt("pay_currency", {PyStr(s_usdt)}),
        e \in Opt("created_at", {PyStr(<<"2", "0", "2", "3">>)}),
        f \in Opt("payment_id", {PyNum(70)})}

\* final statuses: a 3xx is final when requests has no redirect to follow
Statuses == {200, 201, 300, 404, 500}

JsonValues ==
    {PyList(<<>>), PyNone, PyDict(EmptyDict),
     PyDict([payment_id |-> PyNum(70), pay_address |-> PyStr(<<"T", "x">>)]),
     PyDict([min_amount |-> PyStr(s_5_5)]),
     PyDict([min_amount |-> PyNum(20)]),
     PyDict([min_amount |-> PyStr(s_abc)]),
     PyDict([min_amount |-> PyNone]),
     PyDict([verification_status |-> PyStr(s_confirmed)]),
     PyDict([verification_status |-> PyStr(s_failed)])}

Responses ==
    {NetworkFailure}
    \cup {HttpResponse(st, b) : st \in Statuses,
                                b \in {TextBody} \cup {JsonBody(v) : v \in JsonValues}}

\* the inputs of the concurrent specification
ConcUsers == {PyStr(<<"a">>)}
ConcTimes == {15}
ConcAmounts == {PyNum(100)}
ConcPaymentIds == {PyStr(<<"7">>)}
ConcCallbacks ==
    {[order_id |-> PyStr(OrderId(PyStr(<<"a">>), 15)), payment_status |-> PyStr(s_finished)]}
ConcResponses ==
    {NetworkFailure, HttpResponse(404, TextBody),
     HttpResponse(200, JsonBody(PyDict(EmptyDict)))}

----------------------------------------------------------------------------
(* Specifications *)

\* one caller, the wide inputs
Init == InitWith({1})

Next ==
    \/ \E c \in DOMAIN pc : create_payment_call(c, Amounts, Users, Times)
    \/ \E c \in DOMAIN pc : create_payment_return(c, Responses)
    \/ \E c \in DOMAIN pc : create_withdrawal_call(c, Addresses, Amounts, Users, Times)
    \/ \E c \in DOMAIN pc : create_withdrawal_return(c, Responses)
    \/ \E c \in DOMAIN pc : get_payment_status_call(c, PaymentIds)
    \/ \E c \in DOMAIN pc : get_payment_status_return(c, Responses)
    \/ \E c \in DOMAIN pc : get_minimum_payment_amount_call(c)
    \/ \E c \in DOMAIN pc : get_minimum_payment_amount_return(c, Responses)
    \/ \E c \in DOMAIN pc : verify_callback_call(c, IpnData)
    \/ \E c \in DOMAIN pc : verify_callback_return(c, Responses)
    \/ \E c \in DOMAIN pc : process_callback(c, Callbacks)
    \/ \E c \in DOMAIN pc : call_ends(c)

Spec == Init /\ [][Next]_vars

\* NumCallers concurrent callers of the singleton, the narrow inputs
InitConc == InitWith(1..NumCallers)

NextConc ==
    \/ \E c \in DOMAIN pc : create_payment_call(c, ConcAmounts, ConcUsers, ConcTimes)
    \/ \E c \in DOMAIN pc : create_payment_return(c, ConcResponses)
    \/ \E c \in DOMAIN pc : create_withdrawal_call(c, Addresses, ConcAmounts, ConcUsers, ConcTimes)
    \/ \E c \in DOMAIN pc : create_withdrawal_return(c, ConcResponses)
    \/ \E c \in DOMAIN pc : get_payment_status_call(c, ConcPaymentIds)
    \/ \E c \in DOMAIN pc : get_payment_status_return(c, ConcResponses)
    \/ \E c \in DOMAIN pc : get_minimum_payment_amount_call(c)
    \/ \E c \in DOMAIN pc : get_minimum_payment_amount_return(c, ConcResponses)
    \/ \E c \in DOMAIN pc : verify_callback_call(c, IpnData)
    \/ \E c \in DOMAIN pc : verify_callback_return(c, ConcResponses)
    \/ \E c \in DOMAIN pc : process_callback(c, ConcCallbacks)
    \/ \E c \in DOMAIN pc : call_ends(c)

SpecConc == InitConc /\ [][NextConc]_vars

----------------------------------------------------------------------------
(* Vocabulary of the properties *)

Callers == DOMAIN pc

RaisingOps ==
    {"create_payment", "create_withdrawal", "get_payment_status",
     "get_minimum_payment_amount"}
NetworkOps == RaisingOps \cup {"verify_callback"}

IsResponse(resp) == resp.kind = "response"
Is2xx(resp) == IsResponse(resp) /\ resp.status_code \in 200..299
IsErrorStatus(resp) == IsResponse(resp) /\ resp.status_code \in 400..599
IsNetworkFailure(resp) == resp.kind = "error"
HasJsonObject(resp) ==
    IsResponse(resp) /\ resp.body.kind = "json" /\ resp.body.val.kind = "dict"
IsEmptyStr(v) == v.kind = "str" /\ Len(v.val) = 0
IsNonEmptyStr(v) == v.kind = "str" /\ Len(v.val) > 0
Finished(c, m) == pc[c] = "done" /\ op[c] = m

----------------------------------------------------------------------------
(* C1 *)

\* C1 as stated: for create_payment, create_withdrawal, get_payment_status
\* and get_minimum_payment_amount, an exchange that ends in a network
\* failure or in any non-2xx response makes the call fail with a
\* RequestException; the call returns no value.
C1_NonSuccessAlwaysRaises ==
    \A c \in Callers :
        (/\ pc[c] = "done"
         /\ op[c] \in RaisingOps
         /\ IsNetworkFailure(response[c]) \/ (IsResponse(response[c]) /\ ~Is2xx(response[c])))
        => /\ outcome[c].kind = "raise"
           /\ IsRequestException(outcome[c])

\* C1, amended: for the same four methods, an exchange that ends in a
\* network failure or in a 4xx or 5xx response makes the call fail with the
\* RequestException of the transport (ConnectionError) or of
\* raise_for_status (HTTPError); the call returns no value.
C1_ErrorStatusOrNetworkFailureRaises ==
    \A c \in Callers :
        (/\ pc[c] = "done"
         /\ op[c] \in RaisingOps
         /\ IsNetworkFailure(response[c]) \/ IsErrorStatus(response[c]))
        => /\ outcome[c].kind = "raise"
           /\ outcome[c].exc =
                IF IsNetworkFailure(response[c]) THEN "ConnectionError" ELSE "HTTPError"
           /\ IsRequestException(outcome[c])

\* a 404 whose body is a JSON object with min_amount has made
\* get_minimum_payment_amount raise
C1_Witness ==
    \E c \in Callers :
        /\ Finished(c, "get_minimum_payment_amount")
        /\ IsResponse(response[c])
        /\ response[c].status_code = 404
        /\ HasJsonObject(response[c])
        /\ "min_amount" \in DOMAIN response[c].body.val.val
        /\ outcome[c].kind = "raise"

----------------------------------------------------------------------------
(* C2 *)

\* C2 as stated: verify_callback always ends with a boolean, which is true
\* exactly when the exchange ended in a 2xx response whose JSON has
\* verification_status = "confirmed"; no error reaches the caller.
C2_VerifyCallbackAlwaysBoolean ==
    \A c \in Callers :
        Finished(c, "verify_callback")
        => /\ outcome[c].kind = "return"
           /\ outcome[c].val.kind = "bool"
           /\ outcome[c].val.val =
                (/\ Is2xx(response[c])
                 /\ HasJsonObject(response[c])
                 /\ "verification_status" \in DOMAIN response[c].body.val.val
                 /\ response[c].body.val.val["verification_status"].kind = "str"
                 /\ response[c].body.val.val["verification_status"].val = s_confirmed)

----------------------------------------------------------------------------
(* C3 *)

Absent(cb, k) == k \notin DOMAIN cb
AbsentOrEmpty(cb, k) == Absent(cb, k) \/ IsEmptyStr(cb[k])

\* C3: process_callback fails with ValueError("Invalid callback data"), and
\* returns no record, whenever order_id or payment_status is absent from
\* callback_data or present but empty, whatever other fields are present.
C3_MissingFieldIsInvalidCallback ==
    \A c \in Callers :
        (/\ Finished(c, "process_callback")
         /\ \/ AbsentOrEmpty(args[c].callback_data, "order_id")
            \/ AbsentOrEmpty(args[c].callback_data, "payment_status"))
        => outcome[c] = Raise("ValueError", "Invalid callback data")

\* a well-formed order id and every other field present, payment_status
\* absent: the call has failed
C3_Witness ==
    \E c \in Callers :
        /\ Finished(c, "process_callback")
        /\ DOMAIN args[c].callback_data =
             {"order_id", "actually_paid", "pay_currency", "created_at", "payment_id"}
        /\ args[c].callback_data["order_id"] = PyStr(OrderId(PyStr(<<"a">>), 15))
        /\ outcome[c].kind = "raise"
        /\ outcome[c].exc = "ValueError"

----------------------------------------------------------------------------
(* C4 *)

\* s is "deposit_" <userId> "_" <timestamp>
HasDepositForm(s) ==
    /\ Len(s) >= 9
    /\ SubSeq(s, 1, 8) = s_deposit \o <<"_">>
    /\ \E j \in 9..Len(s) : s[j] = "_"

\* what stands between "deposit_" and the next '_'
UserPart(s) ==
    LET j == CHOOSE j \in 9..Len(s) : s[j] = "_" /\ \A k \in 9..(j - 1) : s[k] # "_"
    IN  SubSeq(s, 9, j - 1)

FieldOrNull(cb, k) == IF k \in DOMAIN cb THEN cb[k] ELSE PyNone

\* C4: with a non-empty payment_status and an order_id of the form
\* deposit_<userId>_<timestamp>, process_callback returns exactly the record
\* {user_id: second token of order_id, status: payment_status,
\*  amount: actually_paid, currency: pay_currency, timestamp: created_at},
\* each of the last three unchanged or null when absent, and nothing else.
C4_NormalizedRecord ==
    \A c \in Callers :
        Finished(c, "process_callback") =>
            LET cb == args[c].callback_data
            IN  (/\ "order_id" \in DOMAIN cb
                 /\ "payment_status" \in DOMAIN cb
                 /\ IsNonEmptyStr(cb["payment_status"])
                 /\ cb["order_id"].kind = "str"
                 /\ HasDepositForm(cb["order_id"].val))
                => /\ outcome[c].kind = "return"
                   /\ outcome[c].val.kind = "dict"
                   /\ DOMAIN outcome[c].val.val =
                        {"user_id", "status", "amount", "currency", "timestamp"}
                   /\ outcome[c].val.val["user_id"] = PyStr(UserPart(cb["order_id"].val))
                   /\ outcome[c].val.val["status"] = cb["payment_status"]
                   /\ outcome[c].val.val["amount"] = FieldOrNull(cb, "actually_paid")
                   /\ outcome[c].val.val["currency"] = FieldOrNull(cb, "pay_currency")
                   /\ outcome[c].val.val["timestamp"] = FieldOrNull(cb, "created_at")

\* a callback with payment_id and actually_paid but no pay_currency has
\* given a record whose currency is null
C4_Witness ==
    \E c \in Callers :
        /\ Finished(c, "process_callback")
        /\ DOMAIN args[c].callback_data =
             {"order_id", "payment_status", "actually_paid", "payment_id"}
        /\ args[c].callback_data["order_id"] = PyStr(OrderId(PyStr(<<"a", "a">>), 123))
        /\ outcome[c].kind = "return"
        /\ outcome[c].val.val["currency"] = PyNone
        /\ outcome[c].val.val["amount"] = PyStr(s_10_0)

----------------------------------------------------------------------------
(* C5 *)

\* C5: create_payment sends exactly one POST to BASE_URL/payment whose JSON
\* body has price_amount = the argument, price_currency = "usd",
\* pay_currency = "usdt", order_id = "deposit_" + user_id + "_" + timestamp
\* and the three fixed callback URLs; on a 2xx response it returns the
\* response JSON unchanged.
C5_CreatePaymentRequestAndResult ==
    \A c \in Callers :
        (op[c] = "create_payment" /\ pc[c] \in {"waiting", "done"})
        => /\ Len(sent[c]) = 1
           /\ sent[c][1].method = "POST"
           /\ sent[c][1].url = <<BASE_URL, "/payment">>
           /\ sent[c][1].json.price_amount = args[c].price_amount
           /\ sent[c][1].json.price_currency = PyStr(<<"u", "s", "d">>)
           /\ sent[c][1].json.pay_currency = PyStr(<<"u", "s", "d", "t">>)
           /\ sent[c][1].json.order_id =
                PyStr(<<"d", "e", "p", "o", "s", "i", "t", "_">> \o args[c].user_id.val
                      \o <<"_">> \o FloatStr(now[c]))
           /\ sent[c][1].json.ipn_callback_url = "https://your-domain.com/nowpayments/callback"
           /\ sent[c][1].json.success_url = "https://your-domain.com/deposit/success"
           /\ sent[c][1].json.cancel_url = "https://your-domain.com/deposit/cancel"
           /\ (pc[c] = "done" /\ Is2xx(response[c]) /\ response[c].body.kind = "json")
              => outcome[c] = Return(response[c].body.val)

\* a 201 whose body is a JSON object with a payment id has been returned
C5_Witness ==
    \E c \in Callers :
        /\ Finished(c, "create_payment")
        /\ args[c].user_id = PyStr(<<"a", "_">>)
        /\ IsResponse(response[c])
        /\ response[c].status_code = 201
        /\ HasJsonObject(response[c])
        /\ "payment_id" \in DOMAIN response[c].body.val.val
        /\ outcome[c].kind = "return"

----------------------------------------------------------------------------
(* C6 *)

\* C6 as stated: every failure is a RequestException of one of the five
\* network methods or the ValueError("Invalid callback data") of
\* process_callback.
C6_OnlyTwoErrorKinds ==
    \A c \in Callers :
        (pc[c] = "done" /\ outcome[c].kind = "raise")
        => \/ /\ op[c] \in NetworkOps
              /\ IsRequestException(outcome[c])
           \/ /\ op[c] = "process_callback"
              /\ outcome[c] = Raise("ValueError", "Invalid callback data")

----------------------------------------------------------------------------
(* C7 *)

\* the request of get_minimum_payment_amount, and what it returns from a
\* JSON object: a number as it is, "5.5" as 5.5, 0 without min_amount
MinAmountRequestAndValue(c) ==
    /\ Len(sent[c]) = 1
    /\ sent[c][1].method = "GET"
    /\ sent[c][1].url = <<BASE_URL, "/min-amount">>
    /\ sent[c][1].params = [currency_from |-> PyStr(<<"u", "s", "d", "t">>)]
    /\ (pc[c] = "done" /\ Is2xx(response[c]) /\ HasJsonObject(response[c])) =>
         LET body == response[c].body.val.val
         IN  /\ "min_amount" \notin DOMAIN body => outcome[c] = Return(PyNum(0))
             /\ ("min_amount" \in DOMAIN body /\ body["min_amount"].kind = "num")
                => outcome[c] = Return(PyNum(body["min_amount"].val))
             /\ ("min_amount" \in DOMAIN body /\ body["min_amount"].kind = "str"
                 /\ body["min_amount"].val = <<"5", ".", "5">>)
                => outcome[c] = Return(PyNum(55))

\* the call has returned the default: a JSON object without min_amount gave 0
ReturnedDefault(c) ==
    /\ pc[c] = "done"
    /\ HasJsonObject(response[c])
    /\ "min_amount" \notin DOMAIN response[c].body.val.val
    /\ outcome[c] = Return(PyNum(0))

\* C7 as stated: get_minimum_payment_amount sends GET BASE_URL/min-amount
\* with currency_from=usdt; on a 2xx response it returns the numeric value of
\* min_amount, or 0 when the field is absent; the default 0 is returned only
\* for a successful (2xx) response that lacks the field.
C7_DefaultOnlyFor2xx ==
    \A c \in Callers :
        (op[c] = "get_minimum_payment_amount" /\ pc[c] \in {"waiting", "done"})
        => /\ MinAmountRequestAndValue(c)
           /\ ReturnedDefault(c) => Is2xx(response[c])

\* C7, amended: the same request and the same values on a 2xx response; the
\* default 0 is returned only for a response that raise_for_status accepts
\* (any status outside 4xx and 5xx) and that lacks the field; after a
\* network failure or a 4xx or 5xx response the call returns nothing.
C7_DefaultOnlyForAcceptedResponse ==
    \A c \in Callers :
        (op[c] = "get_minimum_payment_amount" /\ pc[c] \in {"waiting", "done"})
        => /\ MinAmountRequestAndValue(c)
           /\ ReturnedDefault(c) => (IsResponse(response[c]) /\ ~IsErrorStatus(response[c]))
           /\ (pc[c] = "done" /\ (IsNetworkFailure(response[c]) \/ IsErrorStatus(response[c])))
              => outcome[c].kind = "raise"

\* {"min_amount": "5.5"} in a 200 has given 5.5
C7_Witness ==
    \E c \in Callers :
        /\ Finished(c, "get_minimum_payment_amount")
        /\ Is2xx(response[c])
        /\ HasJsonObject(response[c])
        /\ "min_amount" \in DOMAIN response[c].body.val.val
        /\ response[c].body.val.val["min_amount"] = PyStr(<<"5", ".", "5">>)
        /\ outcome[c] = Return(PyNum(55))

----------------------------------------------------------------------------
(* C8 *)

\* C8: no retry.  A call of one of the five network methods has issued
\* exactly one HTTP request from the moment it waits for the gateway until
\* it has returned or failed, whether the request succeeded or failed; a call
\* of process_callback has issued none.
C8_ExactlyOneRequestPerCall ==
    \A c \in Callers :
        /\ (pc[c] \in {"waiting", "done"} /\ op[c] \in NetworkOps) => Len(sent[c]) = 1
        /\ (pc[c] = "done" /\ op[c] = "process_callback") => Len(sent[c]) = 0
        /\ pc[c] = "idle" => Len(sent[c]) = 0

\* one caller's request has failed and its call has ended with one request
\* issued, while another caller has finished process_callback with none
C8_Witness ==
    \E c, d \in Callers :
        /\ c # d
        /\ pc[c] = "done"
        /\ op[c] \in NetworkOps
        /\ IsNetworkFailure(response[c]) \/ IsErrorStatus(response[c])
        /\ Len(sent[c]) = 1
        /\ Finished(d, "process_callback")
        /\ Len(sent[d]) = 0

----------------------------------------------------------------------------
(* C9 *)

\* C9: the configuration is read-only after construction.  In every state,
\* whatever calls are idle, in flight, succeeded or failed, api_key and the
\* headers have the values set at construction, every request carries
\* x-api-key = the configured key and goes to BASE_URL, and two calls of the
\* same method with the same arguments, clock reading and response have the
\* same request and the same result.
C9_ConfigurationReadOnly ==
    /\ api_key = config_key
    /\ DOMAIN headers = {"x-api-key", "Content-Type"}
    /\ headers["x-api-key"] = config_key
    /\ headers["Content-Type"] = "application/json"
    /\ \A c \in Callers : \A i \in 1..Len(sent[c]) :
          /\ "x-api-key" \in DOMAIN sent[c][i].headers
          /\ sent[c][i].headers["x-api-key"] = config_key
          /\ sent[c][i].url[1] = BASE_URL
    /\ \A c, d \in Callers :
          (/\ pc[c] = "done" /\ pc[d] = "done"
           /\ op[c] = op[d]
           /\ args[c] = args[d]
           /\ now[c] = now[d]
           /\ response[c] = response[d])
          => (outcome[c] = outcome[d] /\ sent[c] = sent[d])

\* while one caller waits inside create_payment, another has had its
\* verify_callback exchange fail; both requests carry the key
C9_Witness ==
    \E c, d \in Callers :
        /\ c # d
        /\ pc[c] = "waiting"
        /\ op[c] = "create_payment"
        /\ pc[d] = "done"
        /\ op[d] = "verify_callback"
        /\ IsNetworkFailure(response[d])
        /\ sent[c][1].headers["x-api-key"] = config_key
        /\ sent[d][1].headers["x-api-key"] = config_key

----------------------------------------------------------------------------
(* C10 *)

HasUnderscore(s) == \E i \in 1..Len(s) : s[i] = "_"

\* s up to its first '_'
BeforeFirstUnderscore(s) ==
    LET i == CHOOSE i \in 1..Len(s) : s[i] = "_" /\ \A k \in 1..(i - 1) : s[k] # "_"
    IN  SubSeq(s, 1, i - 1)

\* C10: order-id round trip.  process_callback applied to the order id that
\* create_payment generates for user_id at any timestamp (payment_status
\* non-empty) returns user_id itself when user_id is non-empty and has no
\* '_', and only the part of user_id before its first '_' when it has one.
C10_OrderIdRoundTrip ==
    \A c \in Callers :
        Finished(c, "process_callback") =>
            LET cb == args[c].callback_data
            IN  \A u \in Users, t \in Times :
                    (/\ "order_id" \in DOMAIN cb
                     /\ "payment_status" \in DOMAIN cb
                     /\ IsNonEmptyStr(cb["payment_status"])
                     /\ cb["order_id"].kind = "str"
                     /\ cb["order_id"].val = OrderId(u, t))
                    => /\ outcome[c].kind = "return"
                       /\ (Len(u.val) > 0 /\ ~HasUnderscore(u.val))
                          => outcome[c].val.val["user_id"] = u
                       /\ HasUnderscore(u.val)
                          => /\ outcome[c].val.val["user_id"]
                                = PyStr(BeforeFirstUnderscore(u.val))
                             /\ outcome[c].val.val["user_id"] # u

\* the order id of user "aa" has given back "aa"
C10_Witness ==
    \E c \in Callers :
        /\ Finished(c, "process_callback")
        /\ "order_id" \in DOMAIN args[c].callback_data
        /\ args[c].callback_data["order_id"] = PyStr(OrderId(PyStr(<<"a", "a">>), 123))
        /\ outcome[c].kind = "return"
        /\ outcome[c].val.val["user_id"] = PyStr(<<"a", "a">>)

====
